---- MODULE Spec2Model ----
(***************************************************************************)
(* Ascon-MAC (ascon_core.c): the permutation p^rounds on a 320-bit state   *)
(* of five 64-bit words and the sponge construction ascon_mac built on it. *)
(*                                                                         *)
(* A 64-bit word (u64) is the set of its set bit positions, bit 0 being    *)
(* the least significant one; a byte (uint8_t) is an integer 0..255.  A    *)
(* buffer is a sequence of bytes, addressed by a 0-based offset as in C.   *)
(***************************************************************************)
EXTENDS Integers, Sequences, FiniteSets

\* ------------------------------------------------------------------ u64
WordBits == 64

W == 0 .. (WordBits - 1)

Xor(a, b) == (a \ b) \cup (b \ a)

And(a, b) == a \cap b

Or(a, b) == a \cup b

Not(a) == W \ a

\* x >> n on u64: bits shifted out are dropped
Shr(v, n) == {b - n : b \in v \cap (n .. (WordBits - 1))}

\* x << n on u64: bits shifted past bit 63 are dropped
Shl(v, n) == {b + n : b \in v \cap (0 .. (WordBits - 1 - n))}

\* (u64)b for a byte b
ByteBits(b) == {k \in 0 .. 7 : (b \div (2 ^ k)) % 2 = 1}

RECURSIVE BitSum(_)
BitSum(S) == IF S = {} THEN 0
             ELSE LET k == CHOOSE x \in S : TRUE IN (2 ^ k) + BitSum(S \ {k})

\* (uint8_t)x for a u64 x
LowByte(x) == BitSum({k \in x : k < 8})

\* (x >> n) | (x << (64 - n)), called with 1 <= n <= 63 only
ror64(v, n) == Or(Shr(v, n), Shl(v, WordBits - n))

\* ------------------------------------------------------------- RC table
NumRounds == 12

RCbytes == <<240, 225, 210, 195, 180, 165, 150, 135, 120, 105, 90, 75>>

RC == [i \in 0 .. (NumRounds - 1) |-> ByteBits(RCbytes[i + 1])]

\* ------------------------------------------------ ascon_permutation body
\* The state u64 s[5] is the tuple <<s[0], s[1], s[2], s[3], s[4]>>:
\* x(s, j) is the C expression s[j], put(s, j, v) the assignment s[j] = v.
x(s, j) == s[j + 1]

put(s, j, v) == <<IF j = 0 THEN v ELSE s[1], IF j = 1 THEN v ELSE s[2],
                  IF j = 2 THEN v ELSE s[3], IF j = 3 THEN v ELSE s[4],
                  IF j = 4 THEN v ELSE s[5]>>

\* pC: s[2] ^= RC[i]
pC(s, i) == put(s, 2, Xor(x(s, 2), RC[i]))

\* s[0] ^= s[4]; s[4] ^= s[3]; s[2] ^= s[1];   (in this order)
pS_pre(s) ==
    LET a == put(s, 0, Xor(x(s, 0), x(s, 4)))
        b == put(a, 4, Xor(x(a, 4), x(a, 3)))
    IN  put(b, 2, Xor(x(b, 2), x(b, 1)))

\* a slip: s[0] ^= t1 is applied before t4 = ~s[4] & s[0] is computed
pS_temps_late(s) ==
    LET t0 == And(Not(x(s, 0)), x(s, 1))
        t1 == And(Not(x(s, 1)), x(s, 2))
        t2 == And(Not(x(s, 2)), x(s, 3))
        t3 == And(Not(x(s, 3)), x(s, 4))
        t4 == And(Not(x(s, 4)), Xor(x(s, 0), t1))
    IN  <<t0, t1, t2, t3, t4>>

\* the temporaries <<t0, t1, t2, t3, t4>> of lines 43-47
pS_temps(s) ==
    LET t0 == And(Not(x(s, 0)), x(s, 1))
        t1 == And(Not(x(s, 1)), x(s, 2))
        t2 == And(Not(x(s, 2)), x(s, 3))
        t3 == And(Not(x(s, 3)), x(s, 4))
        t4 == And(Not(x(s, 4)), x(s, 0))
    IN  <<t0, t1, t2, t3, t4>>

\* s[0] ^= t1; s[1] ^= t2; s[2] ^= t3; s[3] ^= t4; s[4] ^= t0;
pS_upd(s, t) ==
    <<Xor(x(s, 0), x(t, 1)), Xor(x(s, 1), x(t, 2)), Xor(x(s, 2), x(t, 3)),
      Xor(x(s, 3), x(t, 4)), Xor(x(s, 4), x(t, 0))>>

\* s[1] ^= s[0]; s[0] ^= s[4]; s[3] ^= s[2]; s[2] = ~s[2];   (in this order)
pS_post(s) ==
    LET a == put(s, 1, Xor(x(s, 1), x(s, 0)))
        b == put(a, 0, Xor(x(a, 0), x(a, 4)))
        c == put(b, 3, Xor(x(b, 3), x(b, 2)))
    IN  put(c, 2, Not(x(c, 2)))

pS(s) == LET a == pS_pre(s) IN pS_post(pS_upd(a, pS_temps(a)))

\* pL: s[j] ^= ror64(s[j], A_j) ^ ror64(s[j], B_j)
pL(s) ==
    <<Xor(x(s, 0), Xor(ror64(x(s, 0), 19), ror64(x(s, 0), 28))),
      Xor(x(s, 1), Xor(ror64(x(s, 1), 61), ror64(x(s, 1), 39))),
      Xor(x(s, 2), Xor(ror64(x(s, 2), 1), ror64(x(s, 2), 6))),
      Xor(x(s, 3), Xor(ror64(x(s, 3), 10), ror64(x(s, 3), 17))),
      Xor(x(s, 4), Xor(ror64(x(s, 4), 7), ror64(x(s, 4), 41)))>>

\* one iteration of the for loop, lines 36-57
Round(s, i) == pL(pS(pC(s, i)))

\* a slip: the loop starts at the first table entry whatever `rounds` is
PermStart_zero(rounds) == 0

\* int start = 12 - rounds;
PermStart(rounds) == NumRounds - rounds

\* ------------------------------------------------------ load / store
\* load64_be(p + off): p[off] is the most significant byte
load64_be(p, off) ==
    Or(Or(Or(Shl(ByteBits(p[off + 1]), 56), Shl(ByteBits(p[off + 2]), 48)),
          Or(Shl(ByteBits(p[off + 3]), 40), Shl(ByteBits(p[off + 4]), 32))),
       Or(Or(Shl(ByteBits(p[off + 5]), 24), Shl(ByteBits(p[off + 6]), 16)),
          Or(Shl(ByteBits(p[off + 7]), 8), ByteBits(p[off + 8]))))

\* a slip: the bytes stored least significant first
store64_le(v) ==
    <<LowByte(v), LowByte(Shr(v, 8)), LowByte(Shr(v, 16)), LowByte(Shr(v, 24)),
      LowByte(Shr(v, 32)), LowByte(Shr(v, 40)), LowByte(Shr(v, 48)),
      LowByte(Shr(v, 56))>>

\* store64_be(p, x): the eight bytes written to p[0..7]
store64_be(v) ==
    <<LowByte(Shr(v, 56)), LowByte(Shr(v, 48)), LowByte(Shr(v, 40)),
      LowByte(Shr(v, 32)), LowByte(Shr(v, 24)), LowByte(Shr(v, 16)),
      LowByte(Shr(v, 8)), LowByte(v)>>

\* ------------------------------------------------------------ ascon_mac
BlockLen == 32

\* the hexadecimal literal 0x80808C0000000080ULL, digit by digit
IVdigits == <<8, 0, 8, 0, 8, 12, 0, 0, 0, 0, 0, 0, 0, 0, 8, 0>>

IV == {n \in W : (IVdigits[16 - (n \div 4)] \div (2 ^ (n % 4))) % 2 = 1}

\* a slip: the message length leaks into the initial state (s[3] = len)
InitState_len(k, n) ==
    <<IV, load64_be(k, 0), load64_be(k, 8), ByteBits(n % 256), {}>>

\* lines 105-109; the length n is not read
InitState(k, n) == <<IV, load64_be(k, 0), load64_be(k, 8), {}, {}>>

\* a slip: blocks counted in units of 64 bytes
FullBlocks_wide(n) == n \div (2 * BlockLen)

\* uint64_t full_blocks = len / 32;
FullBlocks(n) == n \div BlockLen

\* uint64_t remaining = len - full_blocks * 32;  (full_blocks * 32 <= len:
\* the subtraction never wraps)
Remaining(n, fb) == n - fb * BlockLen

\* the four words load64_be(p + off + 8 * j), j = 0 .. 3
BlockWords(p, off) ==
    <<load64_be(p, off), load64_be(p, off + 8),
      load64_be(p, off + 16), load64_be(p, off + 24)>>

\* a slip: the fourth word goes into the capacity word s[4] as well
XorBlock_capacity(s, p, off) ==
    LET w == BlockWords(p, off)
    IN  <<Xor(x(s, 0), w[1]), Xor(x(s, 1), w[2]), Xor(x(s, 2), w[3]),
          Xor(x(s, 3), w[4]), Xor(x(s, 4), w[4])>>

\* a slip: every absorbed block carries the domain-separation bit
XorBlock_flip(s, p, off) ==
    LET w == BlockWords(p, off)
    IN  <<Xor(x(s, 0), w[1]), Xor(x(s, 1), w[2]), Xor(x(s, 2), w[3]),
          Xor(x(s, 3), w[4]), Xor(x(s, 4), {0})>>

\* s[0] ^= load64_be(p); ... s[3] ^= load64_be(p + 24);   (131-134, 146-149)
XorBlock(s, p, off) ==
    LET w == BlockWords(p, off)
    IN  <<Xor(x(s, 0), w[1]), Xor(x(s, 1), w[2]), Xor(x(s, 2), w[3]),
          Xor(x(s, 3), w[4]), x(s, 4)>>

RECURSIVE Rep(_, _)
Rep(b, n) == IF n <= 0 THEN <<>> ELSE Append(Rep(b, n - 1), b)

\* memset(buf, 0, 32)
ZeroBuf == Rep(0, BlockLen)

\* the source offsets memcpy(dst, src + off, n) reads
CopyReads(off, n) == {off + j : j \in 0 .. (n - 1)}

\* memcpy(dst, src + off, n), dst a buffer of 32 bytes
memcpy(dst, src, off, n) ==
    [j \in 1 .. BlockLen |-> IF j <= n THEN src[off + j] ELSE dst[j]]

\* a slip: the tail is always copied as a whole block
TailLen_block(rem) == BlockLen

\* if (remaining > 0) memcpy(...): the number of bytes copied
TailLen(rem) == IF rem > 0 THEN rem ELSE 0

\* a slip: no padding byte at all
PadByte_none(b, rem) == b

\* a slip: the padding byte is left out when the message is block-aligned
PadByte_skip(b, rem) == IF rem = 0 THEN b ELSE [b EXCEPT ![rem + 1] = 128]

\* buf[remaining] = 0x80;
PadByte(b, rem) == [b EXCEPT ![rem + 1] = 128]

\* lines 139-144: the final block
PadBuf(m, fb, rem) ==
    PadByte(memcpy(ZeroBuf, m, fb * BlockLen, TailLen(rem)), rem)

\* s[4] ^= 1ULL;
DomainSep(s) == put(s, 4, Xor(x(s, 4), {0}))

\* store64_be(tag, s[0]); store64_be(tag + 8, s[1]);
SqueezeTag(s) == store64_be(x(s, 0)) \o store64_be(x(s, 1))


\* ---------------------------------------------------------------- inputs
MaxLen == 65

\* bytes the caller's message buffer holds past the message
Slack == 32

KeyA == <<0, 1, 2, 3, 4, 5, 6, 7, 8, 9, 10, 11, 12, 13, 14, 15>>

KeyB == <<254, 220, 186, 152, 118, 84, 50, 16, 1, 35, 69, 103, 137, 171, 205, 239>>

Keys == {KeyA, KeyB}

\* what memory holds before the program writes it
Garbage == {0, 170}

\* n message bytes: f before index b, 0x80 at index b, 0 after it
Msg(n, f, b) ==
    [j \in 1 .. n |-> IF j - 1 < b THEN f ELSE IF j - 1 = b THEN 128 ELSE 0]

\* <<f, b>>: all 0xFF; all zero; 0x80 then zeros; a 0xFF block, 0x80, zeros
Shapes == {<<255, MaxLen + 1>>, <<0, MaxLen + 1>>, <<255, 0>>, <<255, BlockLen>>}

ShortLens == {0, 1, BlockLen + 1}

Calls ==
    {[key |-> KeyA, m |-> Msg(n, sh[1], sh[2]), g |-> 0] :
        n \in 0 .. MaxLen, sh \in Shapes}
    \cup
    {[key |-> k, m |-> Msg(n, 255, MaxLen + 1), g |-> gg] :
        k \in Keys, gg \in Garbage, n \in ShortLens}

ZeroState == <<{}, {}, {}, {}, {}>>

GarbageWord(g) == load64_be(Rep(g, 8), 0)

GarbageState(g) ==
    <<GarbageWord(g), GarbageWord(g), GarbageWord(g), GarbageWord(g), GarbageWord(g)>>

\* every 5-bit column value 0 .. 31 occurs in some bit lane
AllColumns ==
    <<{b \in W : ((b % 32) \div 1) % 2 = 1}, {b \in W : ((b % 32) \div 2) % 2 = 1},
      {b \in W : ((b % 32) \div 4) % 2 = 1}, {b \in W : ((b % 32) \div 8) % 2 = 1},
      {b \in W : ((b % 32) \div 16) % 2 = 1}>>

PermStates ==
    {ZeroState, <<W, W, W, W, W>>, AllColumns, InitState(KeyA, 0),
     <<IV, {0}, W, {63}, {1, 2, 3}>>, <<{0, 63}, {}, {5}, W, {31, 32}>>}

\* ----------------------------------------------------------------- state
VARIABLES
    key, msg, len, tag,           \* the arguments of ascon_mac
    s, buf, full_blocks, bi,      \* its locals (bi is the loop index i)
    remaining,
    pc,                           \* the statement about to run
    rounds, ri, ret,              \* ascon_permutation: argument, loop index i,
                                  \*   and where the call returns to
    t,                            \* t0 .. t4 of the current round
    rs,                           \* history: the state when the round began
    trace,                        \* history: calls of ascon_permutation and
                                  \*   writes to s outside it, in order
    reads,                        \* history: offsets of msg read so far
    rcUsed                        \* history: RC indices read by this call

vars == <<key, msg, len, tag, s, buf, full_blocks, bi, remaining, pc,
          rounds, ri, ret, t, rs, trace, reads, rcUsed>>

macArgs == <<key, msg, len>>

permFrame == <<rounds, ri, ret, t, rs, rcUsed>>

\* what a write changed in each of the five words
Delta(old, new) ==
    <<Xor(x(old, 0), x(new, 0)), Xor(x(old, 1), x(new, 1)),
      Xor(x(old, 2), x(new, 2)), Xor(x(old, 3), x(new, 3)),
      Xor(x(old, 4), x(new, 4))>>

Event(e, d) == [ev |-> e, d |-> d]

\* ascon_mac is entered with one of the calls
Init ==
    \E c \in Calls :
        /\ key = c.key
        /\ msg = c.m \o Rep(c.g, Slack)
        /\ len = Len(c.m)
        /\ tag = Rep(c.g, 16)
        /\ s = GarbageState(c.g)
        /\ buf = Rep(c.g, BlockLen)
        /\ full_blocks = 0 /\ bi = 0 /\ remaining = 0
        /\ pc = "init"
        /\ rounds = 0 /\ ri = 0 /\ ret = "none"
        /\ t = ZeroState /\ rs = ZeroState
        /\ trace = <<>> /\ reads = {} /\ rcUsed = <<>>

\* ascon_permutation is entered directly, with any round count 0 .. 12
InitPerm ==
    \E st \in PermStates, r \in 0 .. NumRounds :
        /\ key = KeyA /\ msg = <<>> /\ len = 0 /\ tag = <<>>
        /\ s = st
        /\ buf = <<>>
        /\ full_blocks = 0 /\ bi = 0 /\ remaining = 0
        /\ pc = "call"
        /\ rounds = r /\ ri = 0 /\ ret = "done"
        /\ t = ZeroState /\ rs = ZeroState
        /\ trace = <<>> /\ reads = {} /\ rcUsed = <<>>

\* ------------------------------------------------- ascon_permutation
\* line 34 and the loop initialisation of line 36
PermEnter ==
    /\ pc = "call"
    /\ ri' = PermStart(rounds)
    /\ rcUsed' = <<>>
    /\ trace' = Append(trace, Event("perm", ZeroState))
    /\ pc' = "perm"
    /\ UNCHANGED <<macArgs, tag, s, buf, full_blocks, bi, remaining,
                   rounds, ret, t, rs, reads>>

\* one whole iteration of the loop, lines 36-57
PermRound ==
    /\ pc = "perm"
    /\ ri < NumRounds
    /\ rs' = s
    /\ s' = Round(s, ri)
    /\ rcUsed' = Append(rcUsed, ri)
    /\ ri' = ri + 1
    /\ UNCHANGED <<macArgs, tag, buf, full_blocks, bi, remaining, pc,
                   rounds, ret, t, trace, reads>>

\* the same iteration statement group by statement group
\* line 39
PermC ==
    /\ pc = "perm"
    /\ ri < NumRounds
    /\ rs' = s
    /\ s' = pC(s, ri)
    /\ rcUsed' = Append(rcUsed, ri)
    /\ pc' = "pS_pre"
    /\ UNCHANGED <<macArgs, tag, buf, full_blocks, bi, remaining,
                   rounds, ri, ret, t, trace, reads>>

\* line 42
PermSpre ==
    /\ pc = "pS_pre"
    /\ s' = pS_pre(s)
    /\ pc' = "pS_temps"
    /\ UNCHANGED <<macArgs, tag, buf, full_blocks, bi, remaining,
                   permFrame, trace, reads>>

\* lines 43-47
PermStemps ==
    /\ pc = "pS_temps"
    /\ t' = pS_temps(s)
    /\ pc' = "pS_upd"
    /\ UNCHANGED <<macArgs, tag, s, buf, full_blocks, bi, remaining,
                   rounds, ri, ret, rs, rcUsed, trace, reads>>

\* line 48
PermSupd ==
    /\ pc = "pS_upd"
    /\ s' = pS_upd(s, t)
    /\ pc' = "pS_post"
    /\ UNCHANGED <<macArgs, tag, buf, full_blocks, bi, remaining,
                   permFrame, trace, reads>>

\* line 49
PermSpost ==
    /\ pc = "pS_post"
    /\ s' = pS_post(s)
    /\ pc' = "pL"
    /\ UNCHANGED <<macArgs, tag, buf, full_blocks, bi, remaining,
                   permFrame, trace, reads>>

\* lines 52-56 and the i++ of line 36
PermL ==
    /\ pc = "pL"
    /\ s' = pL(s)
    /\ ri' = ri + 1
    /\ pc' = "perm"
    /\ UNCHANGED <<macArgs, tag, buf, full_blocks, bi, remaining,
                   rounds, ret, t, rs, rcUsed, trace, reads>>

\* the loop condition i < 12 fails: return to the caller
PermReturn ==
    /\ pc = "perm"
    /\ ~(ri < NumRounds)
    /\ pc' = ret
    /\ UNCHANGED <<macArgs, tag, s, buf, full_blocks, bi, remaining,
                   permFrame, trace, reads>>

\* --------------------------------------------------------- ascon_mac
\* lines 105-109, then the call of line 111
MacInit ==
    /\ pc = "init"
    /\ s' = InitState(key, len)
    /\ trace' = Append(trace, Event("init", ZeroState))
    /\ rounds' = 12 /\ ret' = "absorb" /\ pc' = "call"
    /\ UNCHANGED <<macArgs, tag, buf, full_blocks, bi, remaining,
                   ri, t, rs, reads, rcUsed>>

\* line 126 and the loop initialisation of line 129
MacBlocks ==
    /\ pc = "absorb"
    /\ full_blocks' = FullBlocks(len)
    /\ bi' = 0
    /\ pc' = "loop"
    /\ UNCHANGED <<macArgs, tag, s, buf, remaining, permFrame, trace, reads>>

\* lines 129-135: a complete block, i < full_blocks
MacAbsorb ==
    /\ pc = "loop"
    /\ bi < full_blocks
    /\ LET ns == XorBlock(s, msg, bi * BlockLen)
       IN  /\ s' = ns
           /\ trace' = Append(trace, Event("block", Delta(s, ns)))
    /\ reads' = reads \cup CopyReads(bi * BlockLen, BlockLen)
    /\ rounds' = 12 /\ ret' = "next" /\ pc' = "call"
    /\ UNCHANGED <<macArgs, tag, buf, full_blocks, bi, remaining,
                   ri, t, rs, rcUsed>>

\* the i++ of line 129
MacNext ==
    /\ pc = "next"
    /\ bi' = bi + 1
    /\ pc' = "loop"
    /\ UNCHANGED <<macArgs, tag, s, buf, full_blocks, remaining,
                   permFrame, trace, reads>>

\* the loop is left; lines 139-144
MacPad ==
    /\ pc = "loop"
    /\ ~(bi < full_blocks)
    /\ LET rem == Remaining(len, full_blocks)
       IN  /\ remaining' = rem
           /\ buf' = PadBuf(msg, full_blocks, rem)
           /\ reads' = reads \cup CopyReads(full_blocks * BlockLen, TailLen(rem))
    /\ pc' = "final"
    /\ UNCHANGED <<macArgs, tag, s, full_blocks, bi, permFrame, trace>>

\* lines 146-149
MacFinal ==
    /\ pc = "final"
    /\ LET ns == XorBlock(s, buf, 0)
       IN  /\ s' = ns
           /\ trace' = Append(trace, Event("final", Delta(s, ns)))
    /\ pc' = "domsep"
    /\ UNCHANGED <<macArgs, tag, buf, full_blocks, bi, remaining,
                   permFrame, reads>>

\* line 150, then the call of line 152
MacDomainSep ==
    /\ pc = "domsep"
    /\ LET ns == DomainSep(s)
       IN  /\ s' = ns
           /\ trace' = Append(trace, Event("domsep", Delta(s, ns)))
    /\ rounds' = 12 /\ ret' = "squeeze" /\ pc' = "call"
    /\ UNCHANGED <<macArgs, tag, buf, full_blocks, bi, remaining,
                   ri, t, rs, reads, rcUsed>>

\* lines 161-162
MacSqueeze ==
    /\ pc = "squeeze"
    /\ tag' = SqueezeTag(s)
    /\ trace' = Append(trace, Event("squeeze", ZeroState))
    /\ pc' = "done"
    /\ UNCHANGED <<macArgs, s, buf, full_blocks, bi, remaining,
                   permFrame, reads>>

Next ==
    \/ MacInit \/ MacBlocks \/ MacAbsorb \/ MacNext \/ MacPad \/ MacFinal
    \/ MacDomainSep \/ MacSqueeze
    \/ PermEnter \/ PermRound \/ PermReturn

NextPerm ==
    \/ PermEnter \/ PermC \/ PermSpre \/ PermStemps \/ PermSupd \/ PermSpost
    \/ PermL \/ PermReturn

\* a call of ascon_mac
Spec == Init /\ [][Next]_vars

\* a call of ascon_permutation
SpecPerm == InitPerm /\ [][NextPerm]_vars

\* ======================================================== properties
\* Helpers of the properties below: the big-endian reading of a word by
\* bit position, and views of the history variable trace.

\* byte m (0 = first, most significant) of word w
ByteAt(w, m) == BitSum({k \in 0 .. 7 : (56 - 8 * m + k) \in w})

BytesOf(w) ==
    <<ByteAt(w, 0), ByteAt(w, 1), ByteAt(w, 2), ByteAt(w, 3),
      ByteAt(w, 4), ByteAt(w, 5), ByteAt(w, 6), ByteAt(w, 7)>>

\* the word whose bit n is bit n % 8 of byte 7 - n \div 8 of p[off ..]
WordAt(p, off) ==
    {n \in W : (p[off + 8 - (n \div 8)] \div (2 ^ (n % 8))) % 2 = 1}

Done == pc = "done"

Events(e) == {k \in 1 .. Len(trace) : trace[k].ev = e}

Count(e) == Cardinality(Events(e))

\* the message itself, without the slack of its buffer
Message == SubSeq(msg, 1, len)

FlipOnly == <<{}, {}, {}, {}, {0}>>

\* ---------------------------------------------------------------- C1
\* C1: for every len, ascon_mac absorbs len \div 32 complete blocks and
\* after them exactly one final padded block, never none; when len is a
\* multiple of 32 (len = 0 included) the final block is 0x80 followed by
\* 31 zero bytes, i.e. the words <<0x8000000000000000, 0, 0, 0>>.
C1_OneFinalBlock ==
    /\ Count("final") <= 1
    /\ Count("block") <= len \div BlockLen
    /\ \A k \in Events("block") : \A f \in Events("final") : k < f
    /\ Done =>
        /\ Count("final") = 1
        /\ Count("block") = len \div BlockLen
        /\ len % BlockLen = 0 =>
              \A f \in Events("final") : trace[f].d = <<{63}, {}, {}, {}, {}>>

C1_Witness == Done /\ len = 2 * BlockLen /\ Count("block") = 2

\* ---------------------------------------------------------------- C2
\* what an absorb event has to have changed, and the conditions on trace
C2_Absorbed(k) ==
    LET q == Cardinality({j \in Events("block") : j < k})
        src == IF trace[k].ev = "block" THEN msg ELSE buf
        off == IF trace[k].ev = "block" THEN q * BlockLen ELSE 0
    IN  trace[k].d = <<WordAt(src, off), WordAt(src, off + 8),
                       WordAt(src, off + 16), WordAt(src, off + 24), {}>>

C2_TraceOk ==
    /\ (pc = "call" /\ ret = "absorb") => x(s, 4) = {}
    /\ \A k \in Events("block") \cup Events("final") : C2_Absorbed(k)
    /\ \A k \in Events("domsep") : trace[k].d = FlipOnly
    /\ Count("domsep") <= 1
    /\ \A k \in 1 .. Len(trace) :
          trace[k].d[5] # {} => trace[k].ev = "domsep"

\* C2: capacity isolation.  s[4] is 0 when the first permutation is
\* called; outside ascon_permutation and the initialisation the only step
\* that changes s[4] is the domain-separation step, which flips its least
\* significant bit and happens at most once; each absorbed block changes
\* s[0..3] by exactly the four big-endian words of the 32 bytes it is
\* made of and leaves s[4] alone.
C2_CapacityIsolation ==
    /\ []C2_TraceOk
    /\ [][x(s', 4) # x(s, 4) => pc \in {"init", "perm", "domsep"}]_vars

C2_Witness ==
    /\ Done /\ Count("block") = 2 /\ Count("domsep") = 1
    /\ msg[BlockLen] = 255 /\ msg[2 * BlockLen] = 255

\* ---------------------------------------------------------------- C3
\* the parts of C3
C3_Shape ==
    /\ Len(s) = 5
    /\ \A j \in 0 .. 4 : x(s, j) \subseteq W

C3_Counts ==
    LET absorbs == Events("block") \cup Events("final")
        ceil == (len + 1 + (BlockLen - 1)) \div BlockLen
    IN  /\ Cardinality(absorbs) = ceil
        /\ ceil = (len \div BlockLen) + 1
        /\ Count("perm") = 1 + ceil
        /\ \A k \in Events("block") : trace[k + 1].ev = "perm"
        /\ \A k \in Events("final") :
              trace[k + 1].ev = "domsep" /\ trace[k + 2].ev = "perm"
        /\ Len(rcUsed) = 12
        /\ Len(tag) = 16

\* the statements of ascon_mac and ascon_permutation not yet run are
\* counted by a number that every step lowers: 40 for each permutation
\* call still to be made, and the rank of the statement within its call
C3_Rank ==
    CASE pc = "done" -> 0
      [] pc = "squeeze" -> 1
      [] pc = "call" -> 2
      [] pc = "domsep" -> 3
      [] pc = "init" -> 3
      [] pc = "final" -> 4
      [] pc = "loop" -> 5
      [] pc = "next" -> 6
      [] pc = "absorb" -> 6
      [] pc = "perm" -> 7 + 2 * (NumRounds - ri)
      [] OTHER -> 39

C3_Left == 40 * ((2 + (len \div BlockLen)) - Count("perm")) + C3_Rank

C3_Running ==
    pc \in {"init", "call", "perm", "absorb", "loop", "next", "final",
            "domsep", "squeeze"}

\* C3: every call ends with a 16-byte tag: as long as the call is not
\* done a statement is ready to run, and every step lowers a natural
\* number, so the call cannot run for ever; the state is five 64-bit
\* words all along; there are ceil((len + 1) / 32) = len \div 32 + 1
\* absorb iterations, each a block XOR followed by a permutation of 12
\* rounds, and 1 + ceil((len + 1) / 32) permutation calls in all.
C3_Terminates ==
    /\ [](C3_Shape /\ C3_Left >= 0 /\ (Done \/ C3_Running))
    /\ []((pc \in {"absorb", "next", "squeeze", "done"}) => Len(rcUsed) = 12)
    /\ [](Done => C3_Counts)
    /\ [][C3_Left' < C3_Left]_vars

C3_Witness == Done /\ len = 2 * BlockLen + 1 /\ Count("perm") = 4

\* ---------------------------------------------------------------- C4
\* C4: squeeze.  When the call is done the 16 bytes of tag are the bytes
\* of s[0], most significant first, followed by those of s[1]; s is the
\* state the last round of the final permutation produced, and the only
\* event after that permutation call is the tag write.
C4_Squeeze ==
    Done =>
        /\ Len(tag) = 16
        /\ tag = BytesOf(x(s, 0)) \o BytesOf(x(s, 1))
        /\ s = Round(rs, NumRounds - 1)
        /\ ri = NumRounds
        /\ Len(trace) >= 2
        /\ trace[Len(trace)].ev = "squeeze"
        /\ trace[Len(trace) - 1].ev = "perm"

C4_Witness ==
    /\ Done /\ len = 1 /\ msg[len + 1] = 170
    /\ \E j \in 1 .. 16 : tag[j] # 170

\* ---------------------------------------------------------------- C5
\* the IV from its parameter bytes, the earlier IV, the keyed start state
C5_ParamIV ==
    WordAt(<<128, 128, BitSum(Xor(ByteBits(128), ByteBits(12))), 0,
             0, 0, 0, 128>>, 0)

C5_OldIV == WordAt(<<128, 128, 132, 0, 0, 0, 0, 128>>, 0)

C5_KeyedStart(k) == <<C5_ParamIV, WordAt(k, 0), WordAt(k, 8), {}, {}>>

\* rounds i .. 11 applied to a state of five words
RECURSIVE C5_Rounds(_, _)
C5_Rounds(st, i) ==
    IF Len(st) # 5 \/ i >= NumRounds THEN st
    ELSE C5_Rounds(Round(st, i), i + 1)

\* C5: initialize.  When the first permutation is called the state is
\* (IV, key[0..7] big-endian, key[8..15] big-endian, 0, 0), where IV packs
\* the bytes 0x80 (key size), 0x80 (rate), 0x80 XOR 12 = 0x8C (rounds), 0,
\* and the 32-bit tag size 0x00000080, and is not 0x8080840000000080; the
\* state after that permutation is a function of the key alone.
C5_Initialize ==
    /\ C5_ParamIV # C5_OldIV
    /\ (pc = "call" /\ ret = "absorb") => s = C5_KeyedStart(key)
    /\ pc = "absorb" => s = C5_Rounds(C5_KeyedStart(key), 0)

C5_Witness == pc = "absorb" /\ key = KeyB /\ len = BlockLen + 1 /\ msg[len + 1] = 170

\* ---------------------------------------------------------------- C6
\* C6: ascon_permutation(s, rounds), 0 <= rounds <= 12, runs exactly
\* `rounds` rounds, round i going from 12 - rounds to 11 in ascending
\* order; each reads RC[i] with i in 0 .. 11 and adds it to s[2], RC[i]
\* being the table entry ((15 - i) << 4) | i.
C6_RoundConstants ==
    /\ \A k \in 1 .. Len(rcUsed) :
          /\ rcUsed[k] \in 0 .. 11
          /\ rcUsed[k] = (12 - rounds) + (k - 1)
    /\ Len(rcUsed) <= rounds
    /\ pc = "pS_pre" =>
          /\ rcUsed[Len(rcUsed)] = ri
          /\ s = <<x(rs, 0), x(rs, 1),
                   Xor(x(rs, 2), ByteBits(16 * (15 - ri) + ri)),
                   x(rs, 3), x(rs, 4)>>
    /\ Done => Len(rcUsed) = rounds

C6_Witness == Done /\ rounds = 3 /\ rcUsed = <<9, 10, 11>>

\* ---------------------------------------------------------------- C7
\* C7: domain separation.  The flip s[4] ^= 1 happens exactly once per
\* call, right after the final padded block was XORed into s[0..3] and
\* right before the last permutation call; no complete block carries it,
\* and exactly one permutation of 12 rounds follows it.
C7_DomainSeparation ==
    /\ Count("domsep") <= 1
    /\ \A k \in Events("domsep") :
          /\ trace[k].d = FlipOnly
          /\ k > 1 /\ trace[k - 1].ev = "final"
    /\ \A k \in Events("block") \cup Events("final") : trace[k].d[5] = {}
    /\ \A k \in Events("block") :
          k < Len(trace) => trace[k + 1].ev = "perm"
    /\ pc \in {"squeeze", "done"} =>
          /\ Count("domsep") = 1
          /\ \A k \in Events("domsep") :
                /\ trace[k + 1].ev = "perm"
                /\ Cardinality({j \in Events("perm") : j > k}) = 1
          /\ Len(rcUsed) = 12

C7_Witness == Done /\ Count("block") = 2 /\ Count("domsep") = 1

\* ---------------------------------------------------------------- C8
\* the reference round, every intermediate value named once
C8_Rot(v, n) == {(b + WordBits - n) % WordBits : b \in v}

C8_RefAdd(r, i) == <<r[1], r[2], Xor(r[3], RC[i]), r[4], r[5]>>

C8_RefPre(c) == <<Xor(c[1], c[5]), c[2], Xor(c[3], c[2]), c[4], Xor(c[5], c[4])>>

C8_RefT(a) ==
    <<And(Not(a[1]), a[2]), And(Not(a[2]), a[3]), And(Not(a[3]), a[4]),
      And(Not(a[4]), a[5]), And(Not(a[5]), a[1])>>

C8_RefUpd(a, u) ==
    <<Xor(a[1], u[2]), Xor(a[2], u[3]), Xor(a[3], u[4]), Xor(a[4], u[5]),
      Xor(a[5], u[1])>>

C8_RefPost(b) ==
    <<Xor(b[1], b[5]), Xor(b[2], b[1]), Not(b[3]), Xor(b[4], b[3]), b[5]>>

C8_RefSbox(c) ==
    LET a == C8_RefPre(c) IN C8_RefPost(C8_RefUpd(a, C8_RefT(a)))

C8_RefLin(d) ==
    <<Xor(d[1], Xor(C8_Rot(d[1], 19), C8_Rot(d[1], 28))),
      Xor(d[2], Xor(C8_Rot(d[2], 61), C8_Rot(d[2], 39))),
      Xor(d[3], Xor(C8_Rot(d[3], 1), C8_Rot(d[3], 6))),
      Xor(d[4], Xor(C8_Rot(d[4], 10), C8_Rot(d[4], 17))),
      Xor(d[5], Xor(C8_Rot(d[5], 7), C8_Rot(d[5], 41)))>>

\* C8: within a round the steps are constant addition, substitution
\* layer, linear layer, in this order; the five temporaries are
\* t_j = ~s[j] & s[(j+1) mod 5], all read from the state as it is after
\* s[0]^=s[4]; s[4]^=s[3]; s[2]^=s[1] and before any s[j] ^= t; and the
\* round equals the reference round written with every intermediate
\* value named once.
C8_RoundOrder ==
    /\ pc = "pS_pre" => s = C8_RefAdd(rs, ri)
    /\ pc = "pS_temps" => s = C8_RefPre(C8_RefAdd(rs, ri))
    /\ pc = "pS_upd" =>
          /\ s = C8_RefPre(C8_RefAdd(rs, ri))
          /\ \A j \in 0 .. 4 : x(t, j) = And(Not(x(s, j)), x(s, (j + 1) % 5))
    /\ pc = "pL" => s = C8_RefSbox(C8_RefAdd(rs, ri))
    /\ (pc \in {"perm", "done"} /\ rcUsed # <<>>) =>
          s = C8_RefLin(C8_RefSbox(C8_RefAdd(rs, ri - 1)))

C8_Witness == pc = "pS_upd" /\ rs = AllColumns /\ ri = 0 /\ x(t, 4) # {}

\* ---------------------------------------------------------------- C9
\* C9: remaining = len - 32 * (len \div 32) lies in 0 .. 31; the final
\* block is the message bytes at offsets 32 * (len \div 32) .. len - 1,
\* then 0x80 at index remaining, then zeros; no byte of msg at an offset
\* >= len is read.
C9_FinalBlock ==
    /\ reads \subseteq 0 .. (len - 1)
    /\ pc \in {"final", "domsep", "squeeze", "done"} =>
          /\ remaining = len - BlockLen * (len \div BlockLen)
          /\ remaining \in 0 .. 31
          /\ Len(buf) = BlockLen
          /\ \A j \in 0 .. (BlockLen - 1) :
                buf[j + 1] =
                    IF j < remaining
                    THEN msg[BlockLen * (len \div BlockLen) + j + 1]
                    ELSE IF j = remaining THEN 128 ELSE 0
          /\ reads = 0 .. (len - 1)

C9_Witness == pc = "final" /\ remaining = 31 /\ len = 63 /\ buf[31] = 255

\* --------------------------------------------------------------- C10
\* the absorbed bytes, read back from trace, and their unpadding
RECURSIVE C10_Bytes(_)
C10_Bytes(k) ==
    IF k = 0 THEN <<>>
    ELSE LET e == trace[k]
         IN  IF e.ev \in {"block", "final"}
             THEN C10_Bytes(k - 1) \o BytesOf(e.d[1]) \o BytesOf(e.d[2])
                                   \o BytesOf(e.d[3]) \o BytesOf(e.d[4])
             ELSE C10_Bytes(k - 1)

\* the bytes before the last non-zero byte, which has to be 0x80
C10_Unpad(b) ==
    LET nz == {j \in 1 .. Len(b) : b[j] # 0}
    IN  IF nz = {} THEN <<"none">>
        ELSE LET p == CHOOSE j \in nz : \A i \in nz : i <= j
             IN  IF b[p] = 128 THEN SubSeq(b, 1, p - 1) ELSE <<"none">>

\* the absorbed blocks that the flip accompanies
C10_Marked ==
    {k \in Events("block") \cup Events("final") :
        k < Len(trace) /\ trace[k + 1].d[5] # {}}

\* C10: padding is injective.  The message is recovered from what was
\* absorbed: the bytes of the blocks XORed into s[0..3], in order, are the
\* message followed by 0x80 and zeros only, and the domain-separation flip
\* marks the last block and no other; so two different messages (a
\* message M and M followed by 0x80 and zeros among them) are never
\* absorbed as the same sequence.
C10_PaddingInjective ==
    Done =>
        /\ C10_Unpad(C10_Bytes(Len(trace))) = Message
        /\ C10_Marked = Events("final")
        /\ \A k \in Events("block") \cup Events("final") : trace[k].d[5] = {}

C10_Witness ==
    /\ Done /\ len = 2 * BlockLen + 1
    /\ msg[BlockLen + 1] = 128 /\ msg[len] = 0 /\ msg[1] = 255
====
